---- MODULE Spec2Model ----
(***************************************************************************)
(* Scroller for Obsidian (src/main.js): the per-editor ViewPlugin instance *)
(* (decorations, pending scroll update, animation handle) and the plugin's *)
(* scroll commands, run against the browser's animation-frame callbacks.   *)
(*                                                                         *)
(* Lengths are in model units; OnePixel units make one CSS pixel.  Time is *)
(* in ticks of performance.now().  A document is a sequence of one-char    *)
(* strings, lines separated by NL, offsets 0-based as in CodeMirror.       *)
(***************************************************************************)
EXTENDS Integers, Sequences, FiniteSets, TLC

VARIABLES
    settings,             \* plugin.settings (fixed during a behaviour)
    isDailyNote,          \* plugin.isActiveFileDailyNote()
    doc,                  \* editorView.state.doc
    selection,            \* editorView.state.selection.main
    decorations,          \* this.decorations
    pendingScrollUpdate,  \* this.pendingScrollUpdate
    anim,                 \* this.anim: <<>> is null, <<[rafId |-> n]>> a handle
    scrollTop,            \* scrollDOM.scrollTop
    callbacks,            \* the document's animation frame callbacks, oldest first
    frame,                \* handles of the frame being run that are still to be invoked
    event,                \* what the last handler did to the scroll position
    notified,             \* doc/selection notifications no recompute has read yet (0, 1, 2 = several)
    recomputes,           \* applyTypewriterScrolling calls in the current frame
    owed,                 \* notified when the current frame began
    command,              \* the scroll command run since the last transaction of update(), or "none"
    wheelAccumulator,     \* this.wheelAccumulator
    wheel,                \* what the wheel events so far added up to and what onWheel issued
    destroyed             \* destroy() has run

vars == <<settings, isDailyNote, doc, selection, decorations,
          pendingScrollUpdate, anim, scrollTop, callbacks, frame, event,
          notified, recomputes, owed, command, wheelAccumulator, wheel,
          destroyed>>

(***************************************************************************)
(* Bounds of the model.                                                    *)
(***************************************************************************)
MaxScrollLines == 3     \* lines of a document in the scroll specification
MaxDuration == 2        \* largest smoothScrollDuration, in ticks

(***************************************************************************)
(* Units.                                                                  *)
(***************************************************************************)
OnePixel == 2           \* the threshold 1 of Math.abs(to - from) < 1
defaultLineHeight == 2  \* editorView.defaultLineHeight
clientHeight == 4       \* scrollDOM.clientHeight = editorView.dom.clientHeight
containerRectTop == 1   \* scrollDOM.getBoundingClientRect().top

Max(a, b) == IF a > b THEN a ELSE b
Min(a, b) == IF a < b THEN a ELSE b
Abs(a) == IF a < 0 THEN -a ELSE a

NL == "\n"
Null == <<>>

(***************************************************************************)
(* CodeMirror Text: lines of a document.                                   *)
(***************************************************************************)
LineStarts(d) == {0} \cup {i \in 1..Len(d) : d[i] = NL}

docLines(d) == Cardinality(LineStarts(d))

\* line.from of line n
lineFrom(d, n) ==
    CHOOSE s \in LineStarts(d) : Cardinality({t \in LineStarts(d) : t < s}) = n - 1

\* line.to of the line that starts at from
lineTo(d, from) ==
    IF \A t \in LineStarts(d) : t <= from THEN Len(d)
    ELSE (CHOOSE t \in LineStarts(d) :
              t > from /\ \A u \in LineStarts(d) : u > from => t <= u) - 1

Line(d, n, from, to) ==
    [number |-> n, from |-> from, to |-> to, text |-> SubSeq(d, from + 1, to)]

lineStartingAt(d, n, from) == Line(d, n, from, lineTo(d, from))

docLine(d, n) == lineStartingAt(d, n, lineFrom(d, n))

docLineAt(d, pos) == docLine(d, Cardinality({s \in LineStarts(d) : s <= pos}))

(***************************************************************************)
(* Settings.  typewriterOffset is the ratio <<numerator, denominator>>;    *)
(* sectionHeaderPattern is one of the patterns of RegExpCompiles below.    *)
(***************************************************************************)
ModelSettings ==
    [enableTypewriterMode |-> TRUE,
     restrictToDailyNotes |-> FALSE,
     typewriterOffset |-> <<1, 2>>,
     useLineBoundaries |-> FALSE,
     visibleLineCount |-> 1,
     enableContentDimming |-> TRUE,
     focusMode |-> "sentence",
     sectionHeaderPattern |-> "^#",
     enableSmoothScrolling |-> TRUE,
     smoothScrollDuration |-> MaxDuration,
     enableCursorScrolling |-> FALSE,
     cursorScrollingSensitivity |-> 2]

(***************************************************************************)
(* Characters.  A character is a string: an ASCII character stands for     *)
(* itself; a character outside ASCII, the double quote and the grave       *)
(* accent are written as their code points ("U+0433").                     *)
(* LOWER and UPPER list the letters of the model (Latin a-z and Cyrillic   *)
(* U+0430-U+044F), case by case.                                           *)
(***************************************************************************)
LOWER ==
    <<"a", "b", "c", "d", "e", "f", "g", "h", "i", "j", "k", "l", "m", "n",
      "o", "p", "q", "r", "s", "t", "u", "v", "w", "x", "y", "z", "U+0430",
      "U+0431", "U+0432", "U+0433", "U+0434", "U+0435", "U+0436", "U+0437",
      "U+0438", "U+0439", "U+043A", "U+043B", "U+043C", "U+043D", "U+043E",
      "U+043F", "U+0440", "U+0441", "U+0442", "U+0443", "U+0444", "U+0445",
      "U+0446", "U+0447", "U+0448", "U+0449", "U+044A", "U+044B", "U+044C",
      "U+044D", "U+044E", "U+044F">>

UPPER ==
    <<"A", "B", "C", "D", "E", "F", "G", "H", "I", "J", "K", "L", "M", "N",
      "O", "P", "Q", "R", "S", "T", "U", "V", "W", "X", "Y", "Z", "U+0410",
      "U+0411", "U+0412", "U+0413", "U+0414", "U+0415", "U+0416", "U+0417",
      "U+0418", "U+0419", "U+041A", "U+041B", "U+041C", "U+041D", "U+041E",
      "U+041F", "U+0420", "U+0421", "U+0422", "U+0423", "U+0424", "U+0425",
      "U+0426", "U+0427", "U+0428", "U+0429", "U+042A", "U+042B", "U+042C",
      "U+042D", "U+042E", "U+042F">>

\* /\p{Lu}/u
IsUpper(c) == \E i \in 1..Len(UPPER) : UPPER[i] = c

\* /\p{L}/u
IsLetter(c) == IsUpper(c) \/ \E i \in 1..Len(LOWER) : LOWER[i] = c

\* /\d/
IsDigit(c) == c \in {"0", "1", "2", "3", "4", "5", "6", "7", "8", "9"}

\* /\s/
Spaces == {" ", "\t", NL}

IsSpace(c) == c \in Spaces

\* /[.!?]/
Terminals == {".", "!", "?"}

IsTerminal(c) == c \in Terminals

\* the class of closing brackets, quotation marks, formatting marks and
\* whitespace; U+0022 is the double quote and U+0060 the grave accent
Closers ==
    {")", "]", "}", ">", "'", "U+0022", "*", "_", "~", "U+0060"}
        \cup {"U+00BB", "U+201D", "U+2019"} \cup Spaces

toLowerCaseChar(c) ==
    IF IsUpper(c) THEN LOWER[CHOOSE i \in 1..Len(UPPER) : UPPER[i] = c] ELSE c

toUpperCaseChar(c) ==
    IF \E i \in 1..Len(LOWER) : LOWER[i] = c
    THEN UPPER[CHOOSE i \in 1..Len(LOWER) : LOWER[i] = c] ELSE c

toLowerCase(w) == [i \in 1..Len(w) |-> toLowerCaseChar(w[i])]

toUpperCase(w) == [i \in 1..Len(w) |-> toUpperCaseChar(w[i])]

\* the blank test without trim()
IsBlankNoTrim(text) == Len(text) = 0

\* text.trim().length === 0
IsBlank(text) == \A i \in 1..Len(text) : IsSpace(text[i])

(***************************************************************************)
(* findSentenceBoundaries.  Offsets are 0-based: text[i] of the source is  *)
(* text[i + 1] here.                                                       *)
(***************************************************************************)
\* while (pos < text.length && /[chars]/.test(text[pos])) pos++
RECURSIVE skipWhile(_, _, _)
skipWhile(text, pos, chars) ==
    IF pos < Len(text) /\ text[pos + 1] \in chars THEN skipWhile(text, pos + 1, chars)
    ELSE pos

\* text.substring(0, end).match(/\S+$/): where the match starts, end if there is none
RECURSIVE wordStartBefore(_, _)
wordStartBefore(text, end) ==
    IF end > 0 /\ ~IsSpace(text[end]) THEN wordStartBefore(text, end - 1) ELSE end

\* text.substring(0, end).match(/\S+\s*$/), trimmed: the last word before end
wordEndingAt(text, wordEnd) ==
    SubSeq(text, wordStartBefore(text, wordEnd) + 1, wordEnd)

contextWordBefore(text, end) ==
    wordEndingAt(text, CHOOSE e \in 0..end :
                           /\ \A k \in (e + 1)..end : IsSpace(text[k])
                           /\ (e = 0 \/ ~IsSpace(text[e])))

compoundAbbrevs ==
    [w \in {<<"U+0434">>, <<"U+043F">>, <<"U+044D">>, <<"U+0447">>} |->
        IF w = <<"U+044D">> THEN {<<"U+043D">>} ELSE {<<"U+0442">>}]

units ==
    {<<"U+0433">>, <<"U+043A", "U+0433">>, <<"U+0442">>, <<"U+043B">>,
     <<"U+043C", "U+043B">>, <<"U+043C">>, <<"U+0441", "U+043C">>,
     <<"U+043C", "U+043C">>, <<"U+043A", "U+043C">>, <<"U+0441">>,
     <<"U+043C", "U+0438", "U+043D">>, <<"U+0447">>}

currency ==
    {<<"U+0440">>, <<"U+0440", "U+0443", "U+0431">>, <<"U+043A", "U+043E", "U+043F">>,
     <<"$">>, <<"U+20AC">>}

numbers ==
    {<<"U+0442", "U+044B", "U+0441">>, <<"U+043C", "U+043B", "U+043D">>,
     <<"U+043C", "U+043B", "U+0440", "U+0434">>}

titles ==
    {<<"U+0433">>, <<"U+0433", "-", "U+043D">>, <<"m", "r">>, <<"m", "r", "s">>,
     <<"m", "s">>, <<"d", "r">>}

academic ==
    {<<"U+043F", "U+0440", "U+043E", "U+0444">>, <<"U+0434", "U+043E", "U+043A">>,
     <<"U+043A", "U+0430", "U+043D", "U+0434">>, <<"U+0430", "U+043A", "U+0430", "U+0434">>}

corporate ==
    {<<"U+043E", "U+043E", "U+043E">>, <<"U+043E", "U+0430", "U+043E">>,
     <<"U+0437", "U+0430", "U+043E">>, <<"i", "n", "c">>, <<"l", "t", "d">>,
     <<"c", "o", "r", "p">>, <<"c", "o">>}

\* /^\p{L}+\.$/u.test(word)
IsLettersDot(word) ==
    /\ Len(word) >= 2
    /\ word[Len(word)] = "."
    /\ \A k \in 1..(Len(word) - 1) : IsLetter(word[k])

\* /\d+\.\d*$/.test(word)
EndsWithDecimal(word) ==
    \E dot \in 2..Len(word) :
        /\ word[dot] = "."
        /\ IsDigit(word[dot - 1])
        /\ \A k \in (dot + 1)..Len(word) : IsDigit(word[k])

\* /\d+\.\d+\.\d+/.test(word)
HasDottedNumber(word) ==
    \E a \in 2..Len(word), b \in 4..Len(word) :
        /\ a < b - 1
        /\ b < Len(word)
        /\ word[a] = "." /\ word[b] = "."
        /\ IsDigit(word[a - 1])
        /\ \A k \in (a + 1)..(b - 1) : IsDigit(word[k])
        /\ IsDigit(word[b + 1])

\* /v\d+\.\d+\.\d+/i.test(word)
HasVersion(word) ==
    \E v \in 1..Len(word) :
        /\ toLowerCaseChar(word[v]) = "v"
        /\ \E a \in (v + 2)..Len(word), b \in (v + 4)..Len(word) :
               /\ a < b - 1
               /\ b < Len(word)
               /\ word[a] = "." /\ word[b] = "."
               /\ \A k \in (v + 1)..(a - 1) : IsDigit(word[k])
               /\ \A k \in (a + 1)..(b - 1) : IsDigit(word[k])
               /\ IsDigit(word[b + 1])

\* the tests between the lookahead and boundaries.push: TRUE when the
\* punctuation at offset i is passed over (continue)
isAbbreviation(wordWithoutDot, contextBefore) ==
    \/ /\ wordWithoutDot \in DOMAIN compoundAbbrevs
       /\ contextBefore \in compoundAbbrevs[wordWithoutDot]
    \/ wordWithoutDot \in units
    \/ wordWithoutDot \in currency
    \/ wordWithoutDot \in numbers
    \/ wordWithoutDot \in titles
    \/ wordWithoutDot \in academic
    \/ wordWithoutDot \in corporate

\* wordWithoutDot === wordWithoutDot.toUpperCase() and an upper-case letter at checkIndex
isInitial(text, wordWithoutDot, checkIndex) ==
    /\ wordWithoutDot = toUpperCase(wordWithoutDot)
    /\ checkIndex < Len(text)
    /\ IsUpper(text[checkIndex + 1])

\* the tests on word without those for numbers and versions
wordIsExceptionNoNumbers(text, i, word) ==
    \/ /\ Len(word) <= 4
       /\ IsLettersDot(word)
       /\ isAbbreviation(toLowerCase(SubSeq(word, 1, Len(word) - 1)),
                         toLowerCase(contextWordBefore(text, i + 1 - Len(word))))
    \/ /\ IsLettersDot(word)
       /\ Len(word) <= 3
       /\ isInitial(text, SubSeq(word, 1, Len(word) - 1), skipWhile(text, i + 1, Spaces))

\* the tests on word = wordBefore[0]
wordIsException(text, i, word) ==
    \/ /\ Len(word) <= 4
       /\ IsLettersDot(word)
       /\ isAbbreviation(toLowerCase(SubSeq(word, 1, Len(word) - 1)),
                         toLowerCase(contextWordBefore(text, i + 1 - Len(word))))
    \/ EndsWithDecimal(word)
    \/ /\ IsLettersDot(word)
       /\ Len(word) <= 3
       /\ isInitial(text, SubSeq(word, 1, Len(word) - 1), skipWhile(text, i + 1, Spaces))
    \/ HasVersion(word)
    \/ HasDottedNumber(word)

isException(text, i) ==
    wordIsException(text, i, SubSeq(text, wordStartBefore(text, i + 1) + 1, i + 1))

\* the for loop over i: the boundaries found from offset i on, appended
RECURSIVE scanBoundaries(_, _, _)

\* the loop body without i = endPos - 1 after a push
scanPunctuationNoSkip(text, i, boundaries, endPos) ==
    IF endPos >= Len(text) THEN Append(boundaries, endPos)
    ELSE IF ~IsLetter(text[endPos + 1])
    THEN scanBoundaries(text, i + 1, boundaries)
    ELSE IF isException(text, i)
    THEN scanBoundaries(text, i + 1, boundaries)
    ELSE scanBoundaries(text, i + 1, Append(boundaries, endPos))

\* the loop body for the punctuation at offset i, endPos past it and what closes it
scanPunctuation(text, i, boundaries, endPos) ==
    IF endPos >= Len(text) THEN Append(boundaries, endPos)
    ELSE IF ~IsLetter(text[endPos + 1])
    THEN scanBoundaries(text, i + 1, boundaries)
    ELSE IF isException(text, i)
    THEN scanBoundaries(text, i + 1, boundaries)
    ELSE scanBoundaries(text, endPos, Append(boundaries, endPos))

scanBoundaries(text, i, boundaries) ==
    IF i >= Len(text) THEN boundaries
    ELSE IF ~IsTerminal(text[i + 1]) THEN scanBoundaries(text, i + 1, boundaries)
    ELSE scanPunctuation(text, i, boundaries,
                         skipWhile(text, skipWhile(text, i + 1, Terminals), Closers))

sentenceBoundaries(text) == scanBoundaries(text, 0, <<>>)

\* for (const boundary of boundaries): the span of the first boundary past
\* position, or <<>> when the loop ends without returning
RECURSIVE spanBefore(_, _, _, _)
spanBefore(boundaries, k, position, sentenceStart) ==
    IF k > Len(boundaries) THEN [found |-> FALSE, start |-> sentenceStart, end |-> 0]
    ELSE IF position < boundaries[k]
    THEN [found |-> TRUE, start |-> sentenceStart, end |-> boundaries[k]]
    ELSE spanBefore(boundaries, k + 1, position, boundaries[k])

\* the returns without the case of a position at or past the last boundary
sentenceOfNoLastCase(text, position, boundaries, span) ==
    IF span.found THEN [start |-> span.start, end |-> span.end]
    ELSE [start |-> span.start, end |-> Len(text)]

\* the returns of findSentenceBoundaries, span being the outcome of its loop
sentenceOf(text, position, boundaries, span) ==
    LET n == Len(boundaries)
    IN IF span.found THEN [start |-> span.start, end |-> span.end]
       ELSE IF n > 0 /\ position >= boundaries[n]
                 /\ IsBlank(SubSeq(text, boundaries[n] + 1, Len(text)))
       THEN [start |-> IF n > 1 THEN boundaries[n - 1] ELSE 0, end |-> boundaries[n]]
       ELSE [start |-> span.start, end |-> Len(text)]

sentenceAmong(text, position, boundaries) ==
    sentenceOf(text, position, boundaries, spanBefore(boundaries, 1, position, 0))

findSentenceBoundaries(text, position) ==
    sentenceAmong(text, position, sentenceBoundaries(text))

(***************************************************************************)
(* buildDecorations.  The header pattern is one of "^#" (a line that       *)
(* starts with #) and "[" (which new RegExp rejects with a SyntaxError).   *)
(* A RangeSet is the sequence of its ranges [from, to].                    *)
(***************************************************************************)
\* new RegExp(pattern) returns rather than throws
RegExpCompiles(pattern) == pattern # "["

\* headerRegex.test(text), for a pattern that compiled
headerRegexTest(pattern, text) ==
    CASE pattern = "^#" -> Len(text) >= 1 /\ text[1] = "#"

RangeSetEmpty == <<>>

\* addDecoration without its guard
addDecorationUnguarded(decorationBuilder, from, to, docLength) ==
    Append(decorationBuilder, [from |-> from, to |-> to])

\* addDecoration(from, to)
addDecoration(decorationBuilder, from, to, docLength) ==
    IF from < to /\ from >= 0 /\ to <= docLength
    THEN Append(decorationBuilder, [from |-> from, to |-> to])
    ELSE decorationBuilder

\* addDecoration(0, start); addDecoration(end, state.doc.length)
dimOutside(d, start, end) ==
    addDecoration(addDecoration(<<>>, 0, start, Len(d)), end, Len(d), Len(d))

\* decorationBuilder.sort((a, b) => a.from - b.from), a stable sort
RECURSIVE sortByFrom(_)
sortByFrom(ranges) ==
    IF Len(ranges) <= 1 THEN ranges
    ELSE LET rest == sortByFrom(Tail(ranges))
             IsBefore(r) == r.from < Head(ranges).from
             NotBefore(r) == ~(r.from < Head(ranges).from)
         IN SelectSeq(rest, IsBefore) \o <<Head(ranges)>> \o SelectSeq(rest, NotBefore)

findNextContentLine(d, lineNumber) ==
    LET RECURSIVE loop(_)
        loop(lineNum) ==
            IF lineNum > docLines(d) THEN 0
            ELSE IF ~IsBlank(docLine(d, lineNum).text) THEN lineNum
            ELSE loop(lineNum + 1)
    IN loop(lineNumber + 1)

\* for (lineNum = from; lineNum >= 1; lineNum--) { if blank continue; ...; break }:
\* the line number the loop body runs for, 0 if it never runs
nearestContentLineUp(d, from) ==
    LET RECURSIVE loop(_)
        loop(lineNum) ==
            IF lineNum < 1 THEN 0
            ELSE IF IsBlank(docLine(d, lineNum).text) THEN loop(lineNum - 1)
            ELSE lineNum
    IN loop(from)

\* the cursor on a blank line; above is the nearest line with content above it
sentenceOnBlankLine(d, pattern, above) ==
    IF above # 0 /\ headerRegexTest(pattern, docLine(d, above).text)
    THEN dimOutside(d, docLine(d, above).from,
                    docLine(d, docLineAt(d, docLine(d, above).from).number).to)
    ELSE addDecoration(<<>>, 0, Len(d), Len(d))

\* the cursor on a header line; next is findNextContentLine, 0 for null
sentenceOnHeaderLine(d, cursorLine, next) ==
    IF next # 0
    THEN dimOutside(d, cursorLine.from,
                    docLine(d, next).from
                        + findSentenceBoundaries(docLine(d, next).text, 0).end)
    ELSE dimOutside(d, cursorLine.from, cursorLine.to)

\* the sentence around the cursor without the look for a header above it
sentenceInLineNoHeader(d, pattern, cursorLine, sentence, above) ==
    dimOutside(d, cursorLine.from + sentence.start, cursorLine.from + sentence.end)

\* the cursor inside sentence of cursorLine
sentenceInLine(d, pattern, cursorLine, sentence, above) ==
    dimOutside(d,
               IF sentence.start = 0 /\ above # 0
                     /\ headerRegexTest(pattern, docLine(d, above).text)
               THEN docLine(d, above).from
               ELSE cursorLine.from + sentence.start,
               cursorLine.from + sentence.end)

sentenceDecorationsAt(d, cursorPosition, pattern, cursorLine) ==
    IF IsBlank(cursorLine.text)
    THEN sentenceOnBlankLine(d, pattern, nearestContentLineUp(d, cursorLine.number - 1))
    ELSE IF headerRegexTest(pattern, cursorLine.text)
    THEN sentenceOnHeaderLine(d, cursorLine, findNextContentLine(d, cursorLine.number))
    ELSE sentenceInLine(d, pattern, cursorLine,
                        findSentenceBoundaries(cursorLine.text,
                                               cursorPosition - cursorLine.from),
                        nearestContentLineUp(d, cursorLine.number - 1))

\* focusMode === 'sentence', after the pattern compiled
sentenceDecorations(d, cursorPosition, pattern) ==
    sentenceDecorationsAt(d, cursorPosition, pattern, docLineAt(d, cursorPosition))

\* for (lineNum = from; lineNum >= 1; lineNum--) { if blank break; start = line.from }
paragraphUp(d, from, start) ==
    LET RECURSIVE loop(_, _)
        loop(lineNum, paragraphStart) ==
            IF lineNum < 1 THEN paragraphStart
            ELSE IF IsBlank(docLine(d, lineNum).text) THEN paragraphStart
            ELSE loop(lineNum - 1, docLine(d, lineNum).from)
    IN loop(from, start)

\* for (lineNum = from; lineNum <= lines; lineNum++) { if blank break; end = line.to }
paragraphDown(d, from, end) ==
    LET RECURSIVE loop(_, _)
        loop(lineNum, paragraphEnd) ==
            IF lineNum > docLines(d) THEN paragraphEnd
            ELSE IF IsBlank(docLine(d, lineNum).text) THEN paragraphEnd
            ELSE loop(lineNum + 1, docLine(d, lineNum).to)
    IN loop(from, end)

\* the paragraph around cursorLine; above is the nearest line with content
\* above a blank cursorLine
paragraphAround(d, cursorLine, above) ==
    IF ~IsBlank(cursorLine.text)
    THEN [found |-> TRUE,
          start |-> paragraphUp(d, cursorLine.number - 1, cursorLine.from),
          end |-> paragraphDown(d, cursorLine.number + 1, cursorLine.to)]
    ELSE IF above # 0
    THEN [found |-> TRUE, start |-> paragraphUp(d, above - 1, docLine(d, above).from),
          end |-> docLine(d, above).to]
    ELSE [found |-> FALSE, start |-> 0, end |-> 0]

paragraphOfLine(d, cursorLine) ==
    paragraphAround(d, cursorLine, nearestContentLineUp(d, cursorLine.number - 1))

\* focusMode === 'paragraph': paragraphStart and paragraphEnd before the header
\* check; found is FALSE when both stay null
paragraphExtent(d, cursorPosition) ==
    paragraphOfLine(d, docLineAt(d, cursorPosition))

headerAbove(d, paragraphStart, pattern, startLineNum) ==
    IF startLineNum > 1 /\ headerRegexTest(pattern, docLine(d, startLineNum - 1).text)
    THEN docLine(d, startLineNum - 1).from
    ELSE paragraphStart

\* if (startLineNum > 1 && headerRegex.test(prevLine.text)) paragraphStart = prevLine.from
absorbHeader(d, paragraphStart, pattern) ==
    headerAbove(d, paragraphStart, pattern, docLineAt(d, paragraphStart).number)

dimOutsideParagraph(d, pattern, extent) ==
    IF extent.found
    THEN dimOutside(d, absorbHeader(d, extent.start, pattern), extent.end)
    ELSE <<>>

paragraphDecorations(d, cursorPosition, pattern) ==
    dimOutsideParagraph(d, pattern, paragraphExtent(d, cursorPosition))

\* headerPositions: line.from of every line the pattern matches, in line order
headerPositionsOf(d, pattern) ==
    LET RECURSIVE loop(_, _)
        loop(lineNumber, headerPositions) ==
            IF lineNumber > docLines(d) THEN headerPositions
            ELSE IF headerRegexTest(pattern, docLine(d, lineNumber).text)
            THEN loop(lineNumber + 1, Append(headerPositions, docLine(d, lineNumber).from))
            ELSE loop(lineNumber + 1, headerPositions)
    IN loop(1, <<>>)

\* headerPositions.filter(pos => pos > lastHeaderBeforeCursor)
headersAfter(headerPositions, lastHeaderBeforeCursor) ==
    LET After(pos) == pos > lastHeaderBeforeCursor
    IN SelectSeq(headerPositions, After)

sectionUpTo(d, following) ==
    IF Len(following) > 0 THEN following[1] ELSE Len(d)

\* the section, before being the headers the filter on cursorPosition keeps
sectionAmong(d, headerPositions, before) ==
    IF Len(before) > 0
    THEN [found |-> TRUE, start |-> before[Len(before)],
          end |-> sectionUpTo(d, headersAfter(headerPositions, before[Len(before)]))]
    ELSE IF Len(headerPositions) > 0
    THEN [found |-> TRUE, start |-> 0, end |-> headerPositions[1]]
    ELSE [found |-> FALSE, start |-> 0, end |-> Len(d)]

\* headerPositions.filter(pos => pos <= cursorPosition)
sectionWithHeaders(d, cursorPosition, headerPositions) ==
    LET AtOrBefore(pos) == pos <= cursorPosition
    IN sectionAmong(d, headerPositions, SelectSeq(headerPositions, AtOrBefore))

\* the filter pos < cursorPosition for pos <= cursorPosition
sectionWithHeadersStrict(d, cursorPosition, headerPositions) ==
    LET Before(pos) == pos < cursorPosition
    IN sectionAmong(d, headerPositions, SelectSeq(headerPositions, Before))

\* the section of the headers strictly before the cursor
sectionExtentStrict(d, cursorPosition, pattern) ==
    sectionWithHeadersStrict(d, cursorPosition, headerPositionsOf(d, pattern))

\* focusMode === 'section': the section, found FALSE for return RangeSet.empty
sectionExtent(d, cursorPosition, pattern) ==
    sectionWithHeaders(d, cursorPosition, headerPositionsOf(d, pattern))

dimOutsideSection(d, section) ==
    IF section.found THEN dimOutside(d, section.start, section.end) ELSE <<>>

sectionDecorations(d, cursorPosition, pattern) ==
    dimOutsideSection(d, sectionExtent(d, cursorPosition, pattern))

\* addDecoration(0, currentLine.to) for addDecoration(0, currentLine.from)
dimOutsideLineBelow(d, currentLine) == dimOutside(d, currentLine.to, currentLine.to)

dimOutsideLine(d, currentLine) == dimOutside(d, currentLine.from, currentLine.to)

lineDecorations(d, cursorPosition) ==
    dimOutsideLine(d, docLineAt(d, cursorPosition))

\* shouldApplyTypewriterFeatures() without its daily-note test
shouldApplyTypewriterFeaturesAnywhere ==
    IF ~settings.enableTypewriterMode THEN FALSE ELSE TRUE

\* shouldApplyTypewriterFeatures()
shouldApplyTypewriterFeatures ==
    IF ~settings.enableTypewriterMode THEN FALSE
    ELSE IF settings.restrictToDailyNotes /\ ~isDailyNote THEN FALSE
    ELSE TRUE

\* the branches with catch blocks that do not return: a pattern that does not
\* compile leaves the mode to dim around the cursor line
focusDecorationsCatchFallsThrough(d, cursorPosition) ==
    LET pattern == settings.sectionHeaderPattern
    IN CASE settings.focusMode = "sentence" /\ RegExpCompiles(pattern) ->
                sortByFrom(sentenceDecorations(d, cursorPosition, pattern))
         [] settings.focusMode = "paragraph" /\ RegExpCompiles(pattern) ->
                sortByFrom(paragraphDecorations(d, cursorPosition, pattern))
         [] settings.focusMode = "section" /\ RegExpCompiles(pattern) ->
                sortByFrom(sectionDecorations(d, cursorPosition, pattern))
         [] OTHER -> sortByFrom(lineDecorations(d, cursorPosition))

\* the branches on plugin.settings.focusMode, each with its try/catch around
\* new RegExp, and the final Decoration.set of the sorted ranges
focusDecorations(d, cursorPosition) ==
    LET pattern == settings.sectionHeaderPattern
    IN CASE settings.focusMode = "sentence" ->
                IF ~RegExpCompiles(pattern) THEN RangeSetEmpty
                ELSE sortByFrom(sentenceDecorations(d, cursorPosition, pattern))
         [] settings.focusMode = "paragraph" ->
                IF ~RegExpCompiles(pattern) THEN RangeSetEmpty
                ELSE sortByFrom(paragraphDecorations(d, cursorPosition, pattern))
         [] settings.focusMode = "section" ->
                IF ~RegExpCompiles(pattern) THEN RangeSetEmpty
                ELSE sortByFrom(sectionDecorations(d, cursorPosition, pattern))
         [] OTHER -> sortByFrom(lineDecorations(d, cursorPosition))

\* buildDecorations without the test of selection.main.empty
buildDecorationsIgnoringSelection(d, sel) ==
    IF ~shouldApplyTypewriterFeatures \/ ~settings.enableContentDimming
    THEN RangeSetEmpty
    ELSE focusDecorations(d, sel.head)

buildDecorations(d, sel) ==
    IF ~shouldApplyTypewriterFeatures \/ ~settings.enableContentDimming
    THEN RangeSetEmpty
    ELSE IF sel.anchor # sel.head THEN RangeSetEmpty
    ELSE focusDecorations(d, sel.head)

(***************************************************************************)
(* The DOM of the scroll container.  The document is laid out one line of  *)
(* defaultLineHeight per document line; the browser keeps scrollTop inside *)
(* [0, scrollHeight - clientHeight].                                       *)
(***************************************************************************)
scrollHeight(d) == Max(clientHeight, docLines(d) * defaultLineHeight)

maxScrollTop(d) == scrollHeight(d) - clientHeight

\* scrollDOM.scrollTop = val
setScrollTop(s, val) ==
    [s EXCEPT !.scrollTop = Max(0, Min(val, maxScrollTop(s.doc)))]

\* coordinates that do not move with the scroll position
coordsAtPosUnscrolled(s, pos) ==
    LET line == docLineAt(s.doc, pos)
        top == containerRectTop + (line.number - 1) * defaultLineHeight
    IN [top |-> top, bottom |-> top + defaultLineHeight]

\* editorView.coordsAtPos(pos): viewport coordinates of the position
coordsAtPos(s, pos) ==
    LET line == docLineAt(s.doc, pos)
        top == containerRectTop + (line.number - 1) * defaultLineHeight - s.scrollTop
    IN [top |-> top, bottom |-> top + defaultLineHeight]

(***************************************************************************)
(* Animation frame callbacks.  A handle is never handed out while a        *)
(* callback or this.anim still holds it.                                   *)
(***************************************************************************)
NoEvent ==
    [type |-> "none", owner |-> "none", raw |-> 0, from |-> 0, to |-> 0,
     val |-> 0, maxTop |-> 0, elapsed |-> 0, duration |-> 0]

\* the arrow function scheduleScrollUpdate registers
ScrollUpdateCallback ==
    [id |-> 0, kind |-> "scrollUpdate", from |-> 0, to |-> 0,
     duration |-> 0, elapsed |-> 0]

\* a closure step with the constants it captures; elapsed is
\* performance.now() - start clamped to [0, duration], so p = elapsed / duration
StepCallback(kind, from, to, duration) ==
    [id |-> 0, kind |-> kind, from |-> from, to |-> to,
     duration |-> duration, elapsed |-> 0]

UsedHandles(s) ==
    {s.callbacks[i].id : i \in 1..Len(s.callbacks)}
        \cup {s.anim[i].rafId : i \in 1..Len(s.anim)}

NextHandle(s) ==
    CHOOSE h \in 1..(Cardinality(UsedHandles(s)) + 1) :
        /\ h \notin UsedHandles(s)
        /\ \A g \in 1..(h - 1) : g \in UsedHandles(s)

requestAnimationFrame(s, cb) ==
    [s EXCEPT !.callbacks = Append(@, [cb EXCEPT !.id = NextHandle(s)])]

cancelAnimationFrame(s, id) ==
    LET Other(cb) == cb.id # id
        OtherHandle(h) == h # id
    IN [s EXCEPT !.callbacks = SelectSeq(@, Other),
                 !.frame = SelectSeq(@, OtherHandle)]

(***************************************************************************)
(* The editor instance: created by createEditorExtension.                  *)
(***************************************************************************)
\* scheduleScrollUpdate without the early return on pendingScrollUpdate
scheduleScrollUpdateUnguarded(s) ==
    requestAnimationFrame([s EXCEPT !.pendingScrollUpdate = TRUE],
                          ScrollUpdateCallback)

scheduleScrollUpdate(s) ==
    IF s.pendingScrollUpdate THEN s
    ELSE requestAnimationFrame([s EXCEPT !.pendingScrollUpdate = TRUE],
                               ScrollUpdateCallback)

smoothScrollingEnabled ==
    IF ~settings.enableSmoothScrolling THEN FALSE ELSE TRUE

\* stopAnimation without its cancelAnimationFrame
stopAnimationNoCancel(s) == [s EXCEPT !.anim = Null]

stopAnimation(s) ==
    LET s1 == IF s.anim # Null /\ s.anim[1].rafId # 0
              THEN cancelAnimationFrame(s, s.anim[1].rafId)
              ELSE s
    IN [s1 EXCEPT !.anim = Null]

\* the clamp without its lower bound
clampTopNoFloor(targetTop, maxTop) == Min(targetTop, maxTop)

\* Math.max(0, Math.min(targetTop, maxTop))
clampTop(targetTop, maxTop) == Max(0, Min(targetTop, maxTop))

\* ease(p) = 1 - (1 - p)^3 for p = elapsed / duration, as a numerator over duration^3
ease(elapsed, duration) ==
    duration * duration * duration
        - (duration - elapsed) * (duration - elapsed) * (duration - elapsed)

\* from + (to - from) * ease(p), rounded down to the unit
interpolate(from, to, elapsed, duration) ==
    from + ((to - from) * ease(elapsed, duration)) \div (duration * duration * duration)

\* animateScrollTo without the stopAnimation() of line 174
animateScrollToNoStop(s, targetTop) ==
    LET maxTop == Max(0, scrollHeight(s.doc) - clientHeight)
        to == clampTop(targetTop, maxTop)
        from == s.scrollTop
        duration == Max(0, settings.smoothScrollDuration)
        ev == [NoEvent EXCEPT !.owner = "editor", !.raw = targetTop, !.from = from,
                              !.to = to, !.maxTop = maxTop, !.duration = duration]
    IN IF Abs(to - from) < OnePixel \/ duration = 0
       THEN [setScrollTop(stopAnimation(s), to)
                EXCEPT !.event = [ev EXCEPT !.type = "immediate", !.val = to]]
       ELSE LET s2 == requestAnimationFrame(s, StepCallback("step", from, to, duration))
            IN [s2 EXCEPT !.anim = <<[rafId |-> NextHandle(s)]>>,
                          !.event = [ev EXCEPT !.type = "start"]]

animateScrollTo(s, targetTop) ==
    LET maxTop == Max(0, scrollHeight(s.doc) - clientHeight)
        to == clampTop(targetTop, maxTop)
        from == s.scrollTop
        duration == Max(0, settings.smoothScrollDuration)
        ev == [NoEvent EXCEPT !.owner = "editor", !.raw = targetTop, !.from = from,
                              !.to = to, !.maxTop = maxTop, !.duration = duration]
    IN IF Abs(to - from) < OnePixel \/ duration = 0
       THEN [setScrollTop(stopAnimation(s), to)
                EXCEPT !.event = [ev EXCEPT !.type = "immediate", !.val = to]]
       ELSE LET s1 == stopAnimation(s)
                s2 == requestAnimationFrame(s1, StepCallback("step", from, to, duration))
            IN [s2 EXCEPT !.anim = <<[rafId |-> NextHandle(s1)]>>,
                          !.event = [ev EXCEPT !.type = "start"]]

\* step asking for another frame also at p = 1 (<= for <)
stepPastEnd(s, cb) ==
    LET val == interpolate(cb.from, cb.to, cb.elapsed, cb.duration)
        s1 == [setScrollTop(s, val)
                 EXCEPT !.event = [NoEvent EXCEPT !.type = "step", !.owner = "editor",
                                       !.from = cb.from, !.to = cb.to, !.val = val,
                                       !.elapsed = cb.elapsed, !.duration = cb.duration]]
    IN IF cb.elapsed <= cb.duration
       THEN [requestAnimationFrame(s1, cb) EXCEPT !.anim = <<[rafId |-> NextHandle(s1)]>>]
       ELSE [s1 EXCEPT !.anim = Null]

\* the closure step of the editor instance's animateScrollTo
step(s, cb) ==
    LET val == interpolate(cb.from, cb.to, cb.elapsed, cb.duration)
        s1 == [setScrollTop(s, val)
                 EXCEPT !.event = [NoEvent EXCEPT !.type = "step", !.owner = "editor",
                                       !.from = cb.from, !.to = cb.to, !.val = val,
                                       !.elapsed = cb.elapsed, !.duration = cb.duration]]
    IN IF cb.elapsed < cb.duration
       THEN [requestAnimationFrame(s1, cb) EXCEPT !.anim = <<[rafId |-> NextHandle(s1)]>>]
       ELSE [s1 EXCEPT !.anim = Null]

\* editorView.dispatch({effects: EditorView.scrollIntoView(...)}): CodeMirror
\* scrolls the container itself, to a position cmTop of its choosing
dispatchScrollIntoView(s, cmTop) ==
    [setScrollTop(s, cmTop)
        EXCEPT !.event = [NoEvent EXCEPT !.type = "dispatch", !.owner = "editor",
                              !.val = cmTop]]

\* if (!cursorCoords) return
coordsMissing(s) ==
    [s EXCEPT !.event = [NoEvent EXCEPT !.type = "abort", !.owner = "editor"]]

applyTypewriterScrolling(s, coordsOk, cmTop) ==
    IF ~shouldApplyTypewriterFeatures \/ s.selection.anchor # s.selection.head THEN s
    ELSE
    LET cursorPosition == s.selection.head
        editorHeight == clientHeight
    IN IF settings.useLineBoundaries
       THEN LET linesToKeep == settings.visibleLineCount
                lineHeight == defaultLineHeight
                cursorCoords == coordsAtPos(s, cursorPosition)
                topBoundary == linesToKeep * lineHeight
                bottomBoundary == editorHeight - (linesToKeep * lineHeight)
                currentTop == s.scrollTop
                cursorTopInContainer == cursorCoords.top - containerRectTop + currentTop
                cursorBottomInContainer == cursorCoords.bottom - containerRectTop + currentTop
            IN IF ~coordsOk THEN coordsMissing(s)
               ELSE IF cursorTopInContainer < topBoundary
               THEN IF smoothScrollingEnabled
                    THEN animateScrollTo(s, cursorTopInContainer - topBoundary)
                    ELSE dispatchScrollIntoView(s, cmTop)
               ELSE IF cursorBottomInContainer > bottomBoundary
               THEN IF smoothScrollingEnabled
                    THEN animateScrollTo(s, cursorBottomInContainer - bottomBoundary)
                    ELSE dispatchScrollIntoView(s, cmTop)
               ELSE s
       ELSE LET verticalOffset ==
                    (editorHeight * settings.typewriterOffset[1])
                        \div settings.typewriterOffset[2]
                coords == coordsAtPos(s, cursorPosition)
                currentTop == s.scrollTop
                cursorTopInContainer == coords.top - containerRectTop + currentTop
                targetTop == cursorTopInContainer - verticalOffset
            IN IF ~coordsOk THEN coordsMissing(s)
               ELSE IF smoothScrollingEnabled
               THEN animateScrollTo(s, targetTop)
               ELSE dispatchScrollIntoView(s, cmTop)

\* the callback without its this.pendingScrollUpdate = false
scrollUpdateCallbackKeepsFlag(s, coordsOk, cmTop) ==
    applyTypewriterScrolling(
        [s EXCEPT !.notified = 0, !.recomputes = @ + 1], coordsOk, cmTop)

\* the callback scheduleScrollUpdate hands to requestAnimationFrame
scrollUpdateCallback(s, coordsOk, cmTop) ==
    LET s1 == applyTypewriterScrolling(
                  [s EXCEPT !.notified = 0, !.recomputes = @ + 1], coordsOk, cmTop)
    IN [s1 EXCEPT !.pendingScrollUpdate = FALSE]

\* update(updateTransaction): tr.doc and tr.selection are the state after it
\* needsDecorationUpdate without selectionSet and viewportChanged
updateDecorationsDocOnly(s, tr) ==
    IF tr.docChanged
    THEN [s EXCEPT !.decorations = buildDecorations(tr.doc, tr.selection)]
    ELSE s

\* if (needsDecorationUpdate) this.decorations = this.buildDecorations(update.view)
updateDecorations(s, tr) ==
    IF tr.docChanged \/ tr.selectionSet \/ tr.viewportChanged
    THEN [s EXCEPT !.decorations = buildDecorations(tr.doc, tr.selection)]
    ELSE s

\* if (needsScrollUpdate) this.scheduleScrollUpdate()
updateScroll(s, tr) ==
    IF tr.docChanged \/ tr.selectionSet
    THEN scheduleScrollUpdate([s EXCEPT !.notified = Min(@ + 1, 2)])
    ELSE s

\* update without its decoration branch: the decorations left for later
updateScrollOnly(s, tr) ==
    updateScroll([s EXCEPT !.doc = tr.doc, !.selection = tr.selection,
                           !.scrollTop = Min(@, maxScrollTop(tr.doc))], tr)

update(s, tr) ==
    updateScroll(
        updateDecorations([s EXCEPT !.doc = tr.doc, !.selection = tr.selection,
                                    !.scrollTop = Min(@, maxScrollTop(tr.doc))], tr),
        tr)

(***************************************************************************)
(* The plugin: its own animateScrollTo and the scroll commands.            *)
(***************************************************************************)
ScrollerPlugin_animateScrollTo(s, targetTop) ==
    LET maxTop == Max(0, scrollHeight(s.doc) - clientHeight)
        to == clampTop(targetTop, maxTop)
        from == s.scrollTop
        duration == Max(0, settings.smoothScrollDuration)
        ev == [NoEvent EXCEPT !.owner = "plugin", !.raw = targetTop, !.from = from,
                              !.to = to, !.maxTop = maxTop, !.duration = duration]
    IN IF Abs(to - from) < OnePixel \/ duration = 0
       THEN [setScrollTop(s, to)
                EXCEPT !.event = [ev EXCEPT !.type = "immediate", !.val = to]]
       ELSE [requestAnimationFrame(s, StepCallback("pluginStep", from, to, duration))
                EXCEPT !.event = [ev EXCEPT !.type = "start"]]

\* the closure step of the plugin's animateScrollTo
ScrollerPlugin_step(s, cb) ==
    LET val == interpolate(cb.from, cb.to, cb.elapsed, cb.duration)
        s1 == [setScrollTop(s, val)
                 EXCEPT !.event = [NoEvent EXCEPT !.type = "step", !.owner = "plugin",
                                       !.from = cb.from, !.to = cb.to, !.val = val,
                                       !.elapsed = cb.elapsed, !.duration = cb.duration]]
    IN IF cb.elapsed < cb.duration THEN requestAnimationFrame(s1, cb) ELSE s1

\* editorView.dispatch({selection: {anchor: pos}})
dispatchSelection(s, pos) ==
    update(s, [docChanged |-> FALSE, selectionSet |-> TRUE, viewportChanged |-> FALSE,
               doc |-> s.doc, selection |-> [anchor |-> pos, head |-> pos]])

\* editorView.dispatch({selection: {anchor: pos}, scrollIntoView: true})
dispatchSelectionScrollIntoView(s, pos, cmTop) ==
    LET s1 == dispatchSelection(s, pos)
    IN [setScrollTop(s1, cmTop)
          EXCEPT !.event = [NoEvent EXCEPT !.type = "dispatch", !.owner = "plugin",
                                !.val = cmTop]]

\* targetScroll for the end of the document at endPosInContainer
targetScrollOf(endPosInContainer) ==
    LET editorHeight == clientHeight
    IN IF settings.useLineBoundaries
       THEN LET linesToKeep == settings.visibleLineCount
                lineHeight == defaultLineHeight
                bottomBoundary == editorHeight - (linesToKeep * lineHeight)
            IN endPosInContainer - bottomBoundary
       ELSE LET verticalOffset ==
                    (editorHeight * settings.typewriterOffset[1])
                        \div settings.typewriterOffset[2]
            IN endPosInContainer - verticalOffset

\* 'bottom' in typewriter mode, s being the state after the dispatch of the
\* selection at documentEnd
scrollToDocumentEnd(s, documentEnd, coordsOk) ==
    IF settings.enableSmoothScrolling
    THEN IF coordsOk
         THEN ScrollerPlugin_animateScrollTo(
                  s, targetScrollOf(coordsAtPos(s, documentEnd).top
                                        - containerRectTop + s.scrollTop))
         ELSE s
    ELSE s

scrollToPosition(s, position, coordsOk, cmTop) ==
    IF position = "top"
    THEN IF settings.enableSmoothScrolling /\ settings.enableTypewriterMode
         THEN dispatchSelection(ScrollerPlugin_animateScrollTo(s, 0), 0)
         ELSE dispatchSelectionScrollIntoView(s, 0, cmTop)
    ELSE IF settings.enableTypewriterMode
              /\ (~settings.restrictToDailyNotes \/ isDailyNote)
    THEN scrollToDocumentEnd(dispatchSelection(s, Len(s.doc)), Len(s.doc), coordsOk)
    ELSE IF settings.enableSmoothScrolling
    THEN dispatchSelection(
             ScrollerPlugin_animateScrollTo(s, scrollHeight(s.doc) - clientHeight),
             Len(s.doc))
    ELSE dispatchSelectionScrollIntoView(s, Len(s.doc), cmTop)

(***************************************************************************)
(* Transactions the host can send to update().                             *)
(***************************************************************************)
Cursor(pos) == [anchor |-> pos, head |-> pos]

\* a line of text typed at the end of the document, the cursor after it
AppendLine(d, text) ==
    [docChanged |-> TRUE, selectionSet |-> TRUE, viewportChanged |-> FALSE,
     doc |-> d \o <<NL>> \o text, selection |-> Cursor(Len(d) + 1 + Len(text))]

\* the last line deleted, the selection mapped through the change
RemoveLastLine(d, sel) ==
    LET newDoc == SubSeq(d, 1, docLine(d, docLines(d)).from - 1)
    IN [docChanged |-> TRUE, selectionSet |-> FALSE, viewportChanged |-> FALSE,
        doc |-> newDoc,
        selection |-> [anchor |-> Min(sel.anchor, Len(newDoc)),
                       head |-> Min(sel.head, Len(newDoc))]]

\* the selection set to a cursor (anchor = head) or to a range
SetSelection(d, anchor, head) ==
    [docChanged |-> FALSE, selectionSet |-> TRUE, viewportChanged |-> FALSE,
     doc |-> d, selection |-> [anchor |-> anchor, head |-> head]]

ViewportChange(d, sel) ==
    [docChanged |-> FALSE, selectionSet |-> FALSE, viewportChanged |-> TRUE,
     doc |-> d, selection |-> sel]

Transactions(d, sel, texts, maxLines) ==
    {AppendLine(d, text) : text \in IF docLines(d) < maxLines THEN texts ELSE {}}
        \cup (IF docLines(d) > 1 THEN {RemoveLastLine(d, sel)} ELSE {})
        \cup {SetSelection(d, head, head) : head \in 0..Len(d)}
        \cup (IF Len(d) > 0 THEN {SetSelection(d, 0, Len(d))} ELSE {})
        \cup {ViewportChange(d, sel)}

(***************************************************************************)
(* The wheel handler.  cursorLineDown and cursorLineUp of                  *)
(* @codemirror/commands move the cursor one line, keeping its column where *)
(* the line is long enough; on the last (first) line they move it to the   *)
(* end (start) of the document; they dispatch nothing when the selection   *)
(* stays as it is.                                                         *)
(***************************************************************************)
\* Math.floor in place of Math.trunc
truncFloor(a, b) == a \div b

\* Math.trunc(a / b) for b > 0
trunc(a, b) == IF a >= 0 THEN a \div b ELSE -((-a) \div b)

\* a % b of JavaScript for b > 0: the result has the sign of a
remainder(a, b) == IF a >= 0 THEN a % b ELSE -((-a) % b)

cursorLineTarget(d, sel, forward) ==
    LET line == docLineAt(d, sel.head)
        column == sel.head - line.from
        other == docLine(d, IF forward THEN line.number + 1 ELSE line.number - 1)
    IN IF forward /\ line.number = docLines(d) THEN Len(d)
       ELSE IF ~forward /\ line.number = 1 THEN 0
       ELSE other.from + Min(column, other.to - other.from)

\* command(this.view): the selection dispatched with scrollIntoView, which
\* leaves the container at a position cmTop of CodeMirror's choosing
cursorLine(s, forward, cmTop) ==
    LET pos == cursorLineTarget(s.doc, s.selection, forward)
    IN IF s.selection = Cursor(pos) THEN s
       ELSE setScrollTop(update(s, SetSelection(s.doc, pos, pos)), cmTop)

\* for (let i = 0; i < Math.abs(lineSteps); i++) command(this.view)
RECURSIVE cursorLines(_, _, _, _)
cursorLines(s, forward, count, cmTop) ==
    IF count = 0 THEN s
    ELSE cursorLines(cursorLine(s, forward, cmTop), forward, count - 1, cmTop)

\* this.wheelAccumulator %= sensitivity replaced by this.wheelAccumulator = 0
onWheelResetting(s, accumulator, deltaY, cmTop) ==
    IF ~settings.enableCursorScrolling \/ ~shouldApplyTypewriterFeatures
    THEN [state |-> s, wheelAccumulator |-> accumulator, handled |-> FALSE, lineSteps |-> 0]
    ELSE LET sum == accumulator + deltaY
             sensitivity == settings.cursorScrollingSensitivity
             lineSteps == trunc(sum, sensitivity)
         IN IF lineSteps # 0
            THEN [state |-> cursorLines(s, lineSteps > 0, Abs(lineSteps), cmTop),
                  wheelAccumulator |-> 0,
                  handled |-> TRUE, lineSteps |-> lineSteps]
            ELSE [state |-> s, wheelAccumulator |-> sum, handled |-> TRUE, lineSteps |-> 0]

\* onWheel(event): the instance after it, its accumulator, whether the event
\* was taken (preventDefault) and the line steps issued
onWheel(s, accumulator, deltaY, cmTop) ==
    IF ~settings.enableCursorScrolling \/ ~shouldApplyTypewriterFeatures
    THEN [state |-> s, wheelAccumulator |-> accumulator, handled |-> FALSE, lineSteps |-> 0]
    ELSE LET sum == accumulator + deltaY
             sensitivity == settings.cursorScrollingSensitivity
             lineSteps == trunc(sum, sensitivity)
         IN IF lineSteps # 0
            THEN [state |-> cursorLines(s, lineSteps > 0, Abs(lineSteps), cmTop),
                  wheelAccumulator |-> remainder(sum, sensitivity),
                  handled |-> TRUE, lineSteps |-> lineSteps]
            ELSE [state |-> s, wheelAccumulator |-> sum, handled |-> TRUE, lineSteps |-> 0]

\* no wheel event yet: sum of the deltaY received, cursorLineDown and
\* cursorLineUp calls made, and both counts for the last event alone
NoWheel == [sum |-> 0, down |-> 0, up |-> 0, lastDown |-> 0, lastUp |-> 0]

(***************************************************************************)
(* The state as one record, and the actions.                               *)
(***************************************************************************)
State ==
    [doc |-> doc, selection |-> selection, decorations |-> decorations,
     pendingScrollUpdate |-> pendingScrollUpdate, anim |-> anim,
     scrollTop |-> scrollTop, callbacks |-> callbacks, frame |-> frame,
     event |-> NoEvent, notified |-> notified, recomputes |-> recomputes]

\* the handler's result s, evaluated once, is the next state
Becomes(s) ==
    \E next \in {s} :
        /\ doc' = next.doc
        /\ selection' = next.selection
        /\ decorations' = next.decorations
        /\ pendingScrollUpdate' = next.pendingScrollUpdate
        /\ anim' = next.anim
        /\ scrollTop' = next.scrollTop
        /\ callbacks' = next.callbacks
        /\ frame' = next.frame
        /\ event' = next.event
        /\ notified' = next.notified
        /\ recomputes' = next.recomputes

Is(s) ==
    /\ doc = s.doc
    /\ selection = s.selection
    /\ decorations = s.decorations
    /\ pendingScrollUpdate = s.pendingScrollUpdate
    /\ anim = s.anim
    /\ scrollTop = s.scrollTop
    /\ callbacks = s.callbacks
    /\ frame = s.frame
    /\ event = s.event
    /\ notified = s.notified
    /\ recomputes = s.recomputes

\* constructor(view)
Constructed(d, sel) ==
    scheduleScrollUpdate(
        [doc |-> d, selection |-> sel, decorations |-> buildDecorations(d, sel),
         pendingScrollUpdate |-> FALSE, anim |-> Null, scrollTop |-> 0,
         callbacks |-> <<>>, frame |-> <<>>, event |-> NoEvent,
         notified |-> 0, recomputes |-> 0])

(***************************************************************************)
(* Spec: the scroll machinery.  The document is up to MaxScrollLines empty *)
(* lines, so that only the cursor line and the scroll height vary.         *)
(***************************************************************************)
ScrollLineTexts == {<<>>}

ScrollSettings ==
    {ModelSettings,
     [ModelSettings EXCEPT !.useLineBoundaries = TRUE],
     [ModelSettings EXCEPT !.enableSmoothScrolling = FALSE],
     [ModelSettings EXCEPT !.smoothScrollDuration = 0],
     [ModelSettings EXCEPT !.enableTypewriterMode = FALSE],
     [ModelSettings EXCEPT !.restrictToDailyNotes = TRUE]}

Init ==
    /\ settings \in ScrollSettings
    /\ isDailyNote = FALSE
    /\ Is(Constructed(<<>>, Cursor(0)))
    /\ owed = 0
    /\ command = "none"
    /\ wheelAccumulator = 0
    /\ wheel = NoWheel
    /\ destroyed = FALSE

\* a transaction reaches update() between two frames
UpdateWith(texts, maxLines) ==
    /\ frame = <<>>
    /\ \E tr \in Transactions(doc, selection, texts, maxLines) :
           Becomes(update(State, tr))
    /\ command' = "none"
    /\ UNCHANGED <<settings, isDailyNote, owed, wheelAccumulator, wheel, destroyed>>

Update == UpdateWith(ScrollLineTexts, MaxScrollLines)

\* where CodeMirror may leave the container after a scrollIntoView; it is asked
\* for one only when smooth scrolling or typewriter mode is off
CmTops ==
    IF settings.enableSmoothScrolling /\ settings.enableTypewriterMode THEN {0}
    ELSE 0..maxScrollTop(doc)

\* coordsAtPos may return null; only 'bottom' asks for coordinates
CoordsChoices(position) == IF position = "bottom" THEN BOOLEAN ELSE {TRUE}

\* the commands 'Scroll to top' and 'Scroll to bottom', issued when no earlier
\* command's animation is still in flight
Command ==
    /\ frame = <<>>
    /\ \A i \in 1..Len(callbacks) : callbacks[i].kind # "pluginStep"
    /\ \E position \in {"top", "bottom"}, cmTop \in CmTops :
         \E coordsOk \in CoordsChoices(position) :
           /\ Becomes(scrollToPosition(State, position, coordsOk, cmTop))
           /\ command' = position
    /\ UNCHANGED <<settings, isDailyNote, owed, wheelAccumulator, wheel, destroyed>>

\* the browser starts a frame dt ticks after the last one
BeginFrameAfter(dt) ==
    /\ frame = <<>>
    /\ callbacks # <<>>
    /\ callbacks' = [i \in 1..Len(callbacks) |->
                        [callbacks[i] EXCEPT !.elapsed =
                            IF callbacks[i].kind = "scrollUpdate" THEN 0
                            ELSE Min(@ + dt, callbacks[i].duration)]]
    /\ frame' = [i \in 1..Len(callbacks) |-> callbacks[i].id]
    /\ owed' = notified
    /\ recomputes' = 0
    /\ event' = NoEvent
    /\ UNCHANGED <<settings, isDailyNote, doc, selection, decorations,
                   pendingScrollUpdate, anim, scrollTop, notified, command,
                   wheelAccumulator, wheel, destroyed>>

BeginFrame == \E dt \in 0..MaxDuration : BeginFrameAfter(dt)

\* the browser invokes the next callback of the frame
RunCallback ==
    /\ frame # <<>>
    /\ \E i \in 1..Len(callbacks) :
         /\ callbacks[i].id = Head(frame)
         /\ \E cb \in {callbacks[i]}, s \in {cancelAnimationFrame(State, Head(frame))} :
              CASE cb.kind = "scrollUpdate" ->
                       \E coordsOk \in BOOLEAN, cmTop \in CmTops :
                           Becomes(scrollUpdateCallback(s, coordsOk, cmTop))
                [] cb.kind = "step" -> Becomes(step(s, cb))
                [] cb.kind = "pluginStep" -> Becomes(ScrollerPlugin_step(s, cb))
    /\ UNCHANGED <<settings, isDailyNote, owed, command, wheelAccumulator, wheel,
                   destroyed>>

Next == Update \/ Command \/ BeginFrame \/ RunCallback

Spec == Init /\ [][Next]_vars

(***************************************************************************)
(* FairSpec: the browser keeps running frames, and time advances between   *)
(* frames again and again.                                                 *)
(***************************************************************************)
AdvancingFrame == \E dt \in 1..MaxDuration : BeginFrameAfter(dt)

FairSpec == Spec /\ WF_vars(RunCallback) /\ SF_vars(AdvancingFrame)

(***************************************************************************)
(* Properties of the scroll machinery (Spec, FairSpec).                    *)
(***************************************************************************)
StepCallbacksPending ==
    {i \in 1..Len(callbacks) : callbacks[i].kind \in {"step", "pluginStep"}}

ScrollUpdatesPending ==
    {i \in 1..Len(callbacks) : callbacks[i].kind = "scrollUpdate"}

\* C1: at any time at most one animation is active on the scroll container:
\* whoever starts an animation, typewriter scrolling or a scroll command,
\* two step callbacks are never pending together.
AtMostOneAnimation == Cardinality(StepCallbacksPending) <= 1

\* C2: at most one scroll-update callback is pending at any time, a frame
\* runs at most one recompute, and a frame that began with one or more
\* notifications since the last recompute has run exactly one when it ends.
CoalescedRecompute ==
    /\ Cardinality(ScrollUpdatesPending) <= 1
    /\ recomputes <= 1
    /\ (frame = <<>> /\ owed > 0) => recomputes = 1

\* several notifications between two frames, one recompute in the frame after
CoalescedRecomputeWitness ==
    /\ frame = <<>>
    /\ owed = 2
    /\ recomputes = 1

PendingFlagHasCallback ==
    /\ pendingScrollUpdate => ScrollUpdatesPending # {}
    /\ notified > 0 => pendingScrollUpdate

\* C3: no notification is lost: while a notification has not been followed
\* by a recompute the flag is set, the flag is never set without a
\* scroll-update callback pending, and every notification is eventually
\* followed by a recompute.
NoNotificationLost ==
    /\ []PendingFlagHasCallback
    /\ (notified > 0) ~> (notified = 0)

\* a recompute has just served several notifications and cleared the flag
NoNotificationLostWitness ==
    /\ owed = 2
    /\ recomputes = 1
    /\ notified = 0
    /\ ~pendingScrollUpdate
    /\ frame = <<>>

EditorStep == event.type = "step" /\ event.owner = "editor"

StepSamples ==
    EditorStep =>
        /\ event.elapsed = 0 => event.val = event.from
        /\ event.elapsed = event.duration =>
              /\ event.val = event.to
              /\ anim = Null
              /\ \A i \in 1..Len(callbacks) : callbacks[i].kind # "step"

\* C4: the sample of an editor animation at t = 0 is exactly from, the value
\* written at t = 1 is exactly to, after that write no step callback of the
\* editor is pending and the handle is null, and under continuing frames and
\* advancing time an animation ends or is superseded by a new start.
AnimationTerminates ==
    /\ []StepSamples
    /\ (anim # Null) ~> (anim = Null \/ (event.owner = "editor" /\ event.type = "start"))

\* the last step of an animation that moved the container
AnimationTerminatesWitness ==
    /\ EditorStep
    /\ event.elapsed = event.duration
    /\ event.from # event.to
    /\ scrollTop = event.to

\* C5: the target an animation is started with is the raw target clamped to
\* [0, maxScrollTop], maxScrollTop = max(0, scrollHeight - clientHeight), it
\* starts from a scrollTop in that interval, and every value it writes lies
\* between the scrollTop it started from and that target, hence in the
\* interval too.
TargetClamped ==
    /\ event.type \in {"start", "immediate"} =>
          /\ event.maxTop = Max(0, scrollHeight(doc) - clientHeight)
          /\ event.to \in 0..event.maxTop
          /\ event.raw \in 0..event.maxTop => event.to = event.raw
          /\ event.raw < 0 => event.to = 0
          /\ event.raw > event.maxTop => event.to = event.maxTop
    /\ event.type = "immediate" => event.val = event.to
    /\ event.type = "start" => event.from \in 0..event.maxTop
    /\ event.type = "step" =>
          event.val \in Min(event.from, event.to)..Max(event.from, event.to)

\* an animation is started with a negative raw target
TargetClampedWitness ==
    /\ event.type = "start"
    /\ event.raw < 0
    /\ event.to = 0

(***************************************************************************)
(* SpecDim: the decorations.  Documents of up to MaxDimLines lines drawn   *)
(* from DimLineTexts: an empty line, a whitespace-only line, a header and  *)
(* a line of two sentences.                                                *)
(***************************************************************************)
MaxDimLines == 3

DimLineTexts == {<<>>, <<" ">>, <<"#">>, <<"a", ".", " ", "b">>}

DimSettings ==
    {[ModelSettings EXCEPT !.focusMode = mode,
                           !.sectionHeaderPattern = pattern,
                           !.enableTypewriterMode = gates[1],
                           !.restrictToDailyNotes = gates[2],
                           !.enableContentDimming = gates[3]] :
        mode \in {"sentence", "paragraph", "section", "line"},
        pattern \in {"^#", "["},
        gates \in {<<TRUE, FALSE, TRUE>>, <<FALSE, FALSE, TRUE>>,
                   <<TRUE, TRUE, TRUE>>, <<TRUE, FALSE, FALSE>>}}

InitDim ==
    /\ settings \in DimSettings
    /\ isDailyNote \in (IF settings.restrictToDailyNotes THEN BOOLEAN ELSE {FALSE})
    /\ \E text \in DimLineTexts : Is(Constructed(text, Cursor(0)))
    /\ owed = 0
    /\ command = "none"
    /\ wheelAccumulator = 0
    /\ wheel = NoWheel
    /\ destroyed = FALSE

UpdateDim == UpdateWith(DimLineTexts, MaxDimLines)

NextDim == UpdateDim

SpecDim == InitDim /\ [][NextDim]_vars

(***************************************************************************)
(* Properties of the decorations (SpecDim).                                *)
(***************************************************************************)
DimmingOn ==
    /\ settings.enableTypewriterMode
    /\ ~settings.restrictToDailyNotes \/ isDailyNote
    /\ settings.enableContentDimming
    /\ selection.anchor = selection.head

PatternCompiles == RegExpCompiles(settings.sectionHeaderPattern)

\* the dim ranges around a focus unit [focusStart, focusEnd]
DimRanges(focusStart, focusEnd) ==
    (IF focusStart > 0 THEN <<[from |-> 0, to |-> focusStart]>> ELSE <<>>)
        \o (IF focusEnd < Len(doc) THEN <<[from |-> focusEnd, to |-> Len(doc)]>> ELSE <<>>)

CursorLineNumber == docLineAt(doc, selection.head).number

\* C6: the dim-range list is empty whenever the selection is non-empty,
\* enableTypewriterMode is off, enableContentDimming is off, or
\* restrictToDailyNotes is on and the document is not the daily note.
GatedOffNothingDimmed == ~DimmingOn => decorations = <<>>

\* a non-empty selection in a document the focus mode would dim
GatedOffNothingDimmedWitness ==
    /\ selection.anchor # selection.head
    /\ settings.enableTypewriterMode /\ settings.enableContentDimming
    /\ ~settings.restrictToDailyNotes
    /\ focusDecorations(doc, selection.head) # <<>>
    /\ decorations = <<>>

\* C7 as stated: when sectionHeaderPattern does not compile the dim-range
\* list is empty in every focus mode, line mode included.
InvalidPatternNothingDimmed == ~PatternCompiles => decorations = <<>>

\* C7: when sectionHeaderPattern does not compile the dim-range list is empty
\* in sentence, paragraph and section mode; line mode never compiles the
\* pattern and dims everything outside the cursor line.
InvalidPatternNothingDimmedButLine ==
    ~PatternCompiles =>
        IF settings.focusMode \in {"sentence", "paragraph", "section"} \/ ~DimmingOn
        THEN decorations = <<>>
        ELSE decorations = DimRanges(docLine(doc, CursorLineNumber).from,
                                     docLine(doc, CursorLineNumber).to)

\* sentence mode, several lines, a pattern that does not compile
InvalidPatternWitness ==
    /\ ~PatternCompiles
    /\ DimmingOn
    /\ settings.focusMode = "sentence"
    /\ docLines(doc) > 1
    /\ ~IsBlank(docLine(doc, CursorLineNumber).text)
    /\ decorations = <<>>

\* C8: the dim-range list is a prefix [0, focusStart) and a suffix
\* [focusEnd, documentLength] with 0 <= focusStart <= focusEnd <=
\* documentLength, each present only when non-empty, in this order.
PrefixAndSuffix ==
    \E focusStart \in 0..Len(doc) : \E focusEnd \in focusStart..Len(doc) :
        decorations = DimRanges(focusStart, focusEnd)

\* both ranges present around a sentence in the middle of a line
PrefixAndSuffixWitness ==
    /\ settings.focusMode = "sentence"
    /\ Len(decorations) = 2
    /\ docLine(doc, CursorLineNumber).from < decorations[1].to
    /\ decorations[2].from < Len(doc)

IsHeaderLine(n) == headerRegexTest(settings.sectionHeaderPattern, docLine(doc, n).text)

HeaderStarts == {docLine(doc, n).from : n \in {m \in 1..docLines(doc) : IsHeaderLine(m)}}

SetMax(S) == CHOOSE x \in S : \A y \in S : y <= x

SetMin(S) == CHOOSE x \in S : \A y \in S : x <= y

\* C9: in section mode, with H the last header line that starts at or before
\* the cursor and H' the first header line after H, the focus unit is
\* [H.start, H'.start), or [H.start, documentLength] without H'; with no
\* header at or before the cursor it is [0, firstHeaderOffset); with no header
\* line nothing is dimmed.
SectionFocus ==
    (settings.focusMode = "section" /\ DimmingOn /\ PatternCompiles) =>
        LET atOrBefore == {h \in HeaderStarts : h <= selection.head}
            H == SetMax(atOrBefore)
            after == {h \in HeaderStarts : h > H}
        IN IF HeaderStarts = {} THEN decorations = <<>>
           ELSE IF atOrBefore = {} THEN decorations = DimRanges(0, SetMin(HeaderStarts))
           ELSE IF after = {} THEN decorations = DimRanges(H, Len(doc))
           ELSE decorations = DimRanges(H, SetMin(after))

\* the cursor at the very start of the second of three headers
SectionFocusWitness ==
    /\ settings.focusMode = "section" /\ DimmingOn /\ PatternCompiles
    /\ Cardinality(HeaderStarts) = 3
    /\ selection.head \in HeaderStarts
    /\ Len(decorations) = 2

WhitespaceOnly(n) ==
    \A i \in 1..Len(docLine(doc, n).text) : docLine(doc, n).text[i] \in {" ", "\t"}

\* the cursor line, or the nearest line above it that is not blank; 0 if none
ParagraphLine ==
    LET above == {n \in 1..CursorLineNumber : ~WhitespaceOnly(n)}
    IN IF above = {} THEN 0 ELSE SetMax(above)

RunFirst(n) == SetMin({a \in 1..n : \A k \in a..n : ~WhitespaceOnly(k)})

RunLast(n) == SetMax({b \in n..docLines(doc) : \A k \in n..b : ~WhitespaceOnly(k)})

\* C10: in paragraph mode, before header absorption, the focus unit runs
\* from the start of the first line to the end of the last line of the
\* maximal run of non-blank lines that contains the cursor line, or, when the
\* cursor line is blank, the nearest non-blank line above it.
ParagraphFocus ==
    (settings.focusMode = "paragraph" /\ ParagraphLine # 0) =>
        LET start == docLine(doc, RunFirst(ParagraphLine)).from
            end == docLine(doc, RunLast(ParagraphLine)).to
        IN /\ paragraphExtent(doc, selection.head) =
                 [found |-> TRUE, start |-> start, end |-> end]
           /\ (DimmingOn /\ PatternCompiles) =>
                 decorations =
                     DimRanges(absorbHeader(doc, start, settings.sectionHeaderPattern), end)

\* the cursor on a whitespace-only line below a paragraph of two lines
ParagraphFocusWitness ==
    /\ settings.focusMode = "paragraph" /\ DimmingOn /\ PatternCompiles
    /\ WhitespaceOnly(CursorLineNumber)
    /\ Len(docLine(doc, CursorLineNumber).text) > 0
    /\ ParagraphLine # 0
    /\ RunFirst(ParagraphLine) < RunLast(ParagraphLine)
    /\ decorations # <<>>

\* the nearest line above line n that is not blank; 0 if there is none
ContentLineAbove(n) ==
    LET above == {m \in 1..(n - 1) : ~WhitespaceOnly(m)}
    IN IF above = {} THEN 0 ELSE SetMax(above)

\* C11 as stated: in paragraph mode the focus start is the start of the nearest
\* non-blank line above the paragraph when that line matches the header
\* pattern, and the start of the paragraph's first line otherwise.
ParagraphHeaderAbsorbed ==
    (settings.focusMode = "paragraph" /\ DimmingOn /\ PatternCompiles
        /\ ParagraphLine # 0) =>
        LET first == RunFirst(ParagraphLine)
            header == ContentLineAbove(first)
            start == IF header # 0 /\ IsHeaderLine(header)
                     THEN docLine(doc, header).from
                     ELSE docLine(doc, first).from
        IN decorations = DimRanges(start, docLine(doc, RunLast(ParagraphLine)).to)

\* C12: in sentence mode with the cursor on a line that is neither blank nor a
\* header, the focus unit is the sentence the segmenter resolves in the cursor
\* line, and its start moves to the start of the nearest non-blank line above
\* when the sentence starts at line offset 0 and that line is a header.
SentenceFocus ==
    (settings.focusMode = "sentence" /\ DimmingOn /\ PatternCompiles
        /\ ~WhitespaceOnly(CursorLineNumber) /\ ~IsHeaderLine(CursorLineNumber)) =>
        LET line == docLine(doc, CursorLineNumber)
            sentence == findSentenceBoundaries(line.text, selection.head - line.from)
            header == ContentLineAbove(CursorLineNumber)
        IN decorations =
               DimRanges(IF sentence.start = 0 /\ header # 0 /\ IsHeaderLine(header)
                         THEN docLine(doc, header).from
                         ELSE line.from + sentence.start,
                         line.from + sentence.end)

\* the cursor in the first sentence of a line, a blank line and then a header
\* above it: nothing is dimmed before the header
SentenceFocusWitness ==
    /\ settings.focusMode = "sentence" /\ DimmingOn /\ PatternCompiles
    /\ CursorLineNumber = 3
    /\ IsHeaderLine(1) /\ WhitespaceOnly(2) /\ ~WhitespaceOnly(3) /\ ~IsHeaderLine(3)
    /\ selection.head = docLine(doc, 3).from
    /\ decorations = <<[from |-> docLine(doc, 3).from + 3, to |-> Len(doc)]>>

\* the first line below line n that is not blank; 0 if there is none
ContentLineBelow(n) ==
    LET below == {m \in (n + 1)..docLines(doc) : ~WhitespaceOnly(m)}
    IN IF below = {} THEN 0 ELSE SetMin(below)

\* the lines with content nearest to line n, above or below it
NearestContentLines(n) ==
    {m \in 1..docLines(doc) :
        /\ ~WhitespaceOnly(m)
        /\ \A k \in 1..docLines(doc) : ~WhitespaceOnly(k) => Abs(m - n) <= Abs(k - n)}

\* the focus is a sentence the segmenter resolves in line m
SentenceOfLineInFocus(m) ==
    \E p \in 0..Len(docLine(doc, m).text) :
        decorations =
            DimRanges(docLine(doc, m).from
                          + findSentenceBoundaries(docLine(doc, m).text, p).start,
                      docLine(doc, m).from
                          + findSentenceBoundaries(docLine(doc, m).text, p).end)

\* C13 as stated: in sentence mode with the cursor on a blank line the focus
\* unit is the header line alone when the line directly above is a header and
\* no content follows before the next header; otherwise it is a sentence of
\* the nearest content line, so the whole document is never dimmed.
BlankLineSentenceFocus ==
    (settings.focusMode = "sentence" /\ DimmingOn /\ PatternCompiles
        /\ WhitespaceOnly(CursorLineNumber)
        /\ NearestContentLines(CursorLineNumber) # {}) =>
        IF /\ CursorLineNumber > 1
           /\ IsHeaderLine(CursorLineNumber - 1)
           /\ \/ ContentLineBelow(CursorLineNumber) = 0
              \/ IsHeaderLine(ContentLineBelow(CursorLineNumber))
        THEN decorations = DimRanges(docLine(doc, CursorLineNumber - 1).from,
                                     docLine(doc, CursorLineNumber - 1).to)
        ELSE /\ decorations # <<[from |-> 0, to |-> Len(doc)]>>
             /\ \E m \in NearestContentLines(CursorLineNumber) : SentenceOfLineInFocus(m)

(***************************************************************************)
(* SpecSeg: the sentence segmenter.  The document is one line, made of up  *)
(* to MaxSegTokens tokens of SegTokens: a space, a period, a word after a  *)
(* space, a word with its period, abbreviations of the tables with their   *)
(* period ("Dr.", "corp.", and U+0433 with a period), a decimal number and *)
(* a version.  Sentence mode applies findSentenceBoundaries to the line at *)
(* every cursor position.                                                  *)
(***************************************************************************)
MaxSegTokens == 3

SegTokens ==
    {<<" ">>, <<".">>, <<" ", "a">>, <<"a", ".">>, <<"D", "r", ".">>,
     <<"c", "o", "r", "p", ".">>, <<"U+0433", ".">>, <<"1", ".", "5">>,
     <<"v", "1", ".", "2", ".", "3">>}

RECURSIVE SegTextsOf(_)
SegTextsOf(tokens) ==
    IF tokens = 0 THEN {<<>>}
    ELSE SegTextsOf(tokens - 1)
             \cup {text \o token : text \in SegTextsOf(tokens - 1), token \in SegTokens}

SegTexts == SegTextsOf(MaxSegTokens)

InitSeg ==
    /\ settings = ModelSettings
    /\ isDailyNote = FALSE
    /\ \E text \in SegTexts : Is(Constructed(text, Cursor(0)))
    /\ owed = 0
    /\ command = "none"
    /\ wheelAccumulator = 0
    /\ wheel = NoWheel
    /\ destroyed = FALSE

\* the selection moves inside the line; no line is added to it
UpdateSeg == UpdateWith({}, 1)

NextSeg == UpdateSeg

SpecSeg == InitSeg /\ [][NextSeg]_vars

(***************************************************************************)
(* Properties of the segmenter (SpecSeg).  The line is doc, the position   *)
(* is selection.head.                                                      *)
(***************************************************************************)
Boundaries == sentenceBoundaries(doc)

BoundarySet == {Boundaries[k] : k \in 1..Len(Boundaries)}

ResolvedSentence == findSentenceBoundaries(doc, selection.head)

\* the position is at or past the last boundary and only whitespace follows it
AtTrailingWhitespace ==
    /\ Len(Boundaries) > 0
    /\ selection.head >= Boundaries[Len(Boundaries)]
    /\ \A k \in (Boundaries[Len(Boundaries)] + 1)..Len(doc) : doc[k] \in {" ", "\t"}

\* C14: for a position p in the line the segmenter returns a span with
\* start <= p <= end, start being 0 or a boundary, end a boundary or the line
\* length, and p < end unless p is the end of the line; at or past the last
\* boundary with only whitespace after it the span is the last sentence, not
\* an empty one.  On a line that is not blank the cursor's dim ranges are the
\* complement of that span.
SpanContainsPosition ==
    LET boundaries == Boundaries
        sentence == ResolvedSentence
        p == selection.head
        n == Len(boundaries)
    IN /\ sentence.start <= p
       /\ p <= sentence.end
       /\ sentence.start \in {0} \cup {boundaries[k] : k \in 1..n}
       /\ sentence.end \in {boundaries[k] : k \in 1..n} \cup {Len(doc)}
       /\ p < sentence.end \/ p = Len(doc)
       /\ (/\ n > 0
           /\ p >= boundaries[n]
           /\ \A k \in (boundaries[n] + 1)..Len(doc) : doc[k] \in {" ", "\t"}) =>
             /\ sentence.end = boundaries[n]
             /\ sentence.start = (IF n > 1 THEN boundaries[n - 1] ELSE 0)
             /\ sentence.start < sentence.end
       /\ (selection.anchor = selection.head /\ ~WhitespaceOnly(1)) =>
             decorations = DimRanges(sentence.start, sentence.end)

\* the cursor at the end of a line of two sentences that ends with a period
SpanContainsPositionWitness ==
    /\ Len(Boundaries) = 2
    /\ selection.anchor = selection.head
    /\ selection.head = Len(doc)
    /\ AtTrailingWhitespace
    /\ decorations = <<[from |-> 0, to |-> Boundaries[1]]>>

\* C17: the boundaries the segmenter confirms in a line are strictly
\* increasing, and each of them is greater than 0 and at most the line length.
BoundariesIncreasing ==
    LET boundaries == Boundaries
    IN \A k \in 1..Len(boundaries) :
           /\ 0 < boundaries[k]
           /\ boundaries[k] <= Len(doc)
           /\ k > 1 => boundaries[k - 1] < boundaries[k]

\* a line of two sentences, the cursor at the start of the second
BoundariesIncreasingWitness ==
    /\ Len(Boundaries) = 2
    /\ Boundaries[2] = Len(doc)
    /\ selection.anchor = selection.head
    /\ selection.head = Boundaries[1]
    /\ decorations = <<[from |-> 0, to |-> Boundaries[1]]>>

\* the word that ends just before index j of the line: what follows the last
\* whitespace before j
WordBefore(j) ==
    SubSeq(doc, SetMax({0} \cup {k \in 1..(j - 1) : doc[k] \in {" ", "\t"}}) + 1, j - 1)

\* the index of the first character after index j that is not whitespace,
\* Len(doc) + 1 if there is none
NextNonSpace(j) ==
    SetMin({k \in (j + 1)..(Len(doc) + 1) : k > Len(doc) \/ doc[k] \notin {" ", "\t"}})

\* the period at index j is followed by whitespace and then a letter
BeforeNextSentence(j) ==
    /\ doc[j] = "."
    /\ j < Len(doc) /\ doc[j + 1] \in {" ", "\t"}
    /\ NextNonSpace(j) <= Len(doc)
    /\ IsLetter(doc[NextNonSpace(j)])

\* the boundary the period at index j would make: the offset of the letter
IsBoundaryAfter(j) ==
    \E k \in 1..Len(Boundaries) : Boundaries[k] = NextNonSpace(j) - 1

\* the tokens of the tables that are made of up to 4 letters
TableTokens ==
    {token \in units \cup currency \cup numbers \cup titles \cup academic \cup corporate :
        Len(token) <= 4 /\ \A k \in 1..Len(token) : IsLetter(token[k])}

\* C15 as stated: a period directly after a token of the unit, currency,
\* magnitude, title, academic and corporate tables (up to 4 letters, compared
\* case-insensitively) that is followed by whitespace and a letter is not a
\* sentence boundary.
AbbreviationNotBoundary ==
    \A j \in 1..Len(doc) :
        (BeforeNextSentence(j) /\ toLowerCase(WordBefore(j)) \in TableTokens) =>
            ~IsBoundaryAfter(j)

\* word is digits, a period, digits
IsDecimalForm(word) ==
    \E dot \in 2..(Len(word) - 1) :
        \A k \in 1..Len(word) : IF k = dot THEN word[k] = "." ELSE IsDigit(word[k])

\* word is v, digits, a period, digits, a period, digits
IsVersionForm(word) ==
    /\ Len(word) >= 6
    /\ word[1] \in {"v", "V"}
    /\ \E a \in 3..(Len(word) - 3) : \E b \in (a + 2)..(Len(word) - 1) :
           \A k \in 2..Len(word) :
               IF k \in {a, b} THEN word[k] = "." ELSE IsDigit(word[k])

\* C16: no boundary lies inside a number or a version: a period between two
\* digits is not a boundary, and a period that ends a token of the form
\* digits-dot-digits or v-digits-dot-digits-dot-digits before the next word is
\* not a boundary.
NoBoundaryInNumber ==
    \A j \in 1..Len(doc) :
        /\ (/\ doc[j] = "."
            /\ j > 1 /\ IsDigit(doc[j - 1])
            /\ j < Len(doc) /\ IsDigit(doc[j + 1])) =>
              \A k \in 1..Len(Boundaries) : Boundaries[k] # j
        /\ (/\ BeforeNextSentence(j)
            /\ IsDecimalForm(WordBefore(j)) \/ IsVersionForm(WordBefore(j))) =>
              ~IsBoundaryAfter(j)

\* a version, its period and the next word: the line is one sentence
NoBoundaryInNumberWitness ==
    /\ \E j \in 1..Len(doc) : BeforeNextSentence(j) /\ IsVersionForm(WordBefore(j))
    /\ Boundaries = <<>>
    /\ selection.head = Len(doc) /\ selection.anchor = Len(doc)
    /\ decorations = <<>>

(***************************************************************************)
(* Properties of the scroll targets (Spec).  A scroll recompute is the     *)
(* step that counts one more recompute; the cursor's line lies at          *)
(* CursorTop..CursorBottom of the content and at CursorTop - scrollTop of  *)
(* the viewport.                                                           *)
(***************************************************************************)
CursorTop == (docLineAt(doc, selection.head).number - 1) * defaultLineHeight

CursorBottom == CursorTop + defaultLineHeight

\* applyTypewriterScrolling runs past its first return
TypewriterApplies ==
    /\ settings.enableTypewriterMode
    /\ ~settings.restrictToDailyNotes \/ isDailyNote
    /\ selection.anchor = selection.head

TargetIssued ==
    event'.owner = "editor" /\ event'.type \in {"start", "immediate"}

AnchorOffset ==
    (clientHeight * settings.typewriterOffset[1]) \div settings.typewriterOffset[2]

\* C19: in anchor-ratio mode with smooth scrolling the target handed to the
\* animation is the cursor's top in the content minus viewportHeight x
\* typewriterOffset, clamped to [0, maxScrollTop]: it does not depend on the
\* scroll position the recompute finds.
AnchorRatioTarget ==
    (/\ event.owner = "editor"
     /\ event.type \in {"start", "immediate"}
     /\ ~settings.useLineBoundaries) =>
        /\ event.raw = CursorTop - AnchorOffset
        /\ event.to = Max(0, Min(CursorTop - AnchorOffset, maxScrollTop(doc)))

\* a recompute that finds the view half a line into an animation
AnchorRatioTargetWitness ==
    /\ event.owner = "editor"
    /\ event.type = "immediate"
    /\ ~settings.useLineBoundaries
    /\ settings.smoothScrollDuration > 0
    /\ event.from = 1
    /\ event.to = 2
    /\ scrollTop = 2

--------------------------------------------------------------------------
\* The scroll commands

\* a transaction of update() or a command
InputStep == Update \/ Command

\* nothing is left to run: no animation, no frame callback, no recompute owed
AtRest ==
    /\ anim = <<>>
    /\ callbacks = <<>>
    /\ frame = <<>>
    /\ ~pendingScrollUpdate

\* where the typewriter rules put the cursor the command has set: at the
\* anchor in anchor-ratio mode; in line-boundary mode the first line is
\* brought down to the top margin and the last line up to the bottom margin
TypewriterTarget ==
    LET margin == settings.visibleLineCount * defaultLineHeight
        raw == IF ~settings.useLineBoundaries THEN CursorTop - AnchorOffset
               ELSE IF command = "top" THEN CursorTop - margin
               ELSE CursorBottom - (clientHeight - margin)
    IN clampTop(raw, maxScrollTop(doc))

\* the command leaves the scroll position to the editor's own scrollIntoView
\* (main.js 743-746, 791-794, and 245-252 once the recompute runs)
LeftToScrollIntoView ==
    \/ ~settings.enableSmoothScrolling
    \/ command = "top" /\ ~settings.enableTypewriterMode

RestsAfterCommand ==
    /\ AtRest
    /\ IF /\ settings.enableTypewriterMode
          /\ ~settings.restrictToDailyNotes \/ isDailyNote
          /\ settings.enableSmoothScrolling
       THEN scrollTop = TypewriterTarget
       ELSE \/ LeftToScrollIntoView
            \/ scrollTop = (IF command = "top" THEN 0 ELSE maxScrollTop(doc))

\* C20 as stated: after 'scroll to top' the selection is a collapsed cursor at
\* offset 0 and after 'scroll to bottom' at the document's length; unless
\* input keeps arriving, the scroll position comes to rest with nothing
\* pending, at the clamped typewriter target of that cursor when typewriter
\* features apply and smooth scrolling is on, and otherwise at 0 or at
\* maxScrollTop (where the editor's own scrollIntoView places the view, only
\* the rest is asked for).
ScrollCommandRests ==
    /\ [](command = "top" => selection = Cursor(0))
    /\ [](command = "bottom" => selection = Cursor(Len(doc)))
    /\ \/ []<><<InputStep>>_vars
       \/ <>[](command = "none" \/ RestsAfterCommand)

(***************************************************************************)
(* SpecWheel: wheel events on an editor of three lines.                    *)
(***************************************************************************)
MaxSensitivity == 3

MaxDelta == 4

MaxWheelSteps == 4

MaxWheelSum == 6

WheelText == <<"a", NL, NL, "b", "c">>

WheelSettings ==
    {[ModelSettings EXCEPT !.enableCursorScrolling = TRUE,
                           !.cursorScrollingSensitivity = sensitivity] :
        sensitivity \in 2..MaxSensitivity}
      \cup {ModelSettings,
            [ModelSettings EXCEPT !.enableCursorScrolling = TRUE,
                                  !.restrictToDailyNotes = TRUE],
            [ModelSettings EXCEPT !.enableCursorScrolling = TRUE,
                                  !.enableTypewriterMode = FALSE]}

InitWheel ==
    /\ settings \in WheelSettings
    /\ isDailyNote \in (IF settings.restrictToDailyNotes THEN BOOLEAN ELSE {FALSE})
    /\ \E head \in 0..Len(WheelText) : Is(Constructed(WheelText, Cursor(head)))
    /\ owed = 0
    /\ command = "none"
    /\ wheelAccumulator = 0
    /\ wheel = NoWheel
    /\ destroyed = FALSE

\* a wheel event reaches the listener between two frames
OnWheel ==
    /\ frame = <<>>
    /\ ~destroyed
    /\ \E deltaY \in (-MaxDelta)..MaxDelta, cmTop \in 0..maxScrollTop(doc) :
         \E r \in {onWheel(State, wheelAccumulator, deltaY, cmTop)} :
           /\ wheel.down + wheel.up + Abs(r.lineSteps) <= MaxWheelSteps
           /\ Abs(wheel.sum + deltaY) <= MaxWheelSum
           /\ Becomes(r.state)
           /\ wheelAccumulator' = r.wheelAccumulator
           /\ wheel' = [sum |-> wheel.sum + deltaY,
                        down |-> wheel.down + Max(r.lineSteps, 0),
                        up |-> wheel.up + Max(-r.lineSteps, 0),
                        lastDown |-> Max(r.lineSteps, 0),
                        lastUp |-> Max(-r.lineSteps, 0)]
    /\ command' = "none"
    /\ UNCHANGED <<settings, isDailyNote, owed, destroyed>>

NextWheel == OnWheel

SpecWheel == InitWheel /\ [][NextWheel]_vars

\* onWheel runs past its first return
CursorScrollingApplies ==
    /\ settings.enableCursorScrolling
    /\ settings.enableTypewriterMode
    /\ ~settings.restrictToDailyNotes \/ isDailyNote

\* the step is a wheel event that issued at least one line step
LineStepsIssued == wheel'.down + wheel'.up > wheel.down + wheel.up

\* C21 as stated: with cursor scrolling enabled the wheel accumulator is zero
\* after every wheel event that crosses the step threshold and issues at
\* least one line-step command.
AccumulatorReset ==
    [][LineStepsIssued => wheelAccumulator' = 0]_vars

\* C21, amended: a wheel event that issues line steps leaves in the
\* accumulator the remainder of the accumulated delta by the sensitivity,
\* with the sign of the accumulated delta; it is zero only when the
\* accumulated delta is a multiple of the sensitivity.
AccumulatorKeepsRemainder ==
    [][LineStepsIssued =>
         LET sum == wheelAccumulator + (wheel'.sum - wheel.sum)
             sensitivity == settings.cursorScrollingSensitivity
         IN /\ wheelAccumulator' = sum - sensitivity * (wheel'.lastDown - wheel'.lastUp)
            /\ Abs(wheelAccumulator') < sensitivity
            /\ (wheelAccumulator' = 0) = (sum % sensitivity = 0)
            /\ wheelAccumulator' * sum >= 0
      ]_vars

\* a line step down that left a remainder
AccumulatorKeepsRemainderWitness ==
    /\ wheel.lastDown = 1
    /\ wheelAccumulator = 1
    /\ settings.cursorScrollingSensitivity = 3

\* C28: with cursor scrolling enabled and a sensitivity s > 0, after any
\* sequence of wheel events with integer deltas the sum of all deltaY equals
\* s x (line-down steps issued - line-up steps issued) + wheelAccumulator,
\* and |wheelAccumulator| < s; when cursor scrolling is disabled or
\* typewriter features do not apply a wheel event changes neither the
\* accumulator nor the cursor.
WheelAccounting ==
    /\ [](CursorScrollingApplies =>
            /\ wheel.sum = settings.cursorScrollingSensitivity * (wheel.down - wheel.up)
                               + wheelAccumulator
            /\ Abs(wheelAccumulator) < settings.cursorScrollingSensitivity)
    /\ [][~CursorScrollingApplies =>
            /\ wheelAccumulator' = wheelAccumulator
            /\ selection' = selection
            /\ wheel'.down = 0 /\ wheel'.up = 0]_vars

\* steps in both directions and a negative remainder
WheelAccountingWitness ==
    /\ CursorScrollingApplies
    /\ wheel.down > 0
    /\ wheel.up > 1
    /\ wheelAccumulator < 0
    /\ selection.head < Len(doc)

--------------------------------------------------------------------------
\* Recomputes that do nothing (Spec)

ScrollUpdateScheduled ==
    /\ pendingScrollUpdate
    /\ \E i \in 1..Len(callbacks) : callbacks[i].kind = "scrollUpdate"

\* C22 as stated: a scroll recompute that finds no screen coordinates for
\* the cursor changes neither scrollTop nor the animation state in that
\* frame, and leaves a scroll recompute scheduled for the next frame, whether
\* or not a document or selection change arrives.
CoordsMissingRetried ==
    [][event'.type = "abort" =>
         /\ scrollTop' = scrollTop
         /\ anim' = anim
         /\ ScrollUpdateScheduled']_vars

\* the first half alone: the frame changes nothing
CoordsMissingNoEffect ==
    [][event'.type = "abort" => scrollTop' = scrollTop /\ anim' = anim]_vars

\* the step runs the frame's scroll recompute
RecomputeStep == recomputes' = recomputes + 1

\* C23: a scroll recompute does nothing when enableTypewriterMode is off,
\* when restrictToDailyNotes is on and the note is not the daily note, or
\* when the selection is not empty: scrollTop is unchanged, no animation is
\* started or stopped, no frame callback is added and no scroll effect is
\* dispatched.
RecomputeGatedOff ==
    [][(RecomputeStep /\ ~TypewriterApplies) =>
         /\ scrollTop' = scrollTop
         /\ anim' = anim
         /\ event'.type = "none"
         /\ \A i \in 1..Len(callbacks') :
               \E j \in 1..Len(callbacks) : callbacks'[i] = callbacks[j]
      ]_vars

\* a recompute with a range selected, in the middle of an animation
RecomputeGatedOffWitness ==
    /\ recomputes = 1
    /\ event.type = "none"
    /\ selection.anchor # selection.head
    /\ anim # Null
    /\ scrollTop > 0

\* the daily-note gate: a recompute in a note that is not the daily note
RecomputeGatedOffDailyNote ==
    /\ recomputes = 1
    /\ settings.restrictToDailyNotes
    /\ ~isDailyNote
    /\ selection = Cursor(Len(doc))
    /\ docLines(doc) = MaxScrollLines
    /\ scrollTop = 0

--------------------------------------------------------------------------
\* The animation handle (Spec)

EditorStepsPending ==
    {i \in 1..Len(callbacks) : callbacks[i].kind = "step"}

\* C24: when smoothScrollDuration is 0, or the clamped target is less than
\* one pixel from the current scrollTop, the editor instance's
\* animateScrollTo sets scrollTop to the clamped target at once, asks for no
\* frame callback and leaves this.anim null; no step of an earlier animation
\* of the instance is left to write afterwards.
ImmediateScroll ==
    [][(/\ event'.owner = "editor"
        /\ event'.type \in {"start", "immediate"}
        /\ event'.duration = 0 \/ Abs(event'.to - event'.from) < OnePixel) =>
          /\ event'.type = "immediate"
          /\ event'.from = scrollTop
          /\ event'.to = clampTop(event'.raw, maxScrollTop(doc))
          /\ scrollTop' = event'.to
          /\ anim' = Null
          /\ EditorStepsPending' = {}
      ]_vars

\* a target a line away, applied at once because the duration is 0
ImmediateScrollWitness ==
    /\ event.owner = "editor"
    /\ event.type = "immediate"
    /\ event.duration = 0
    /\ event.to - event.from = OnePixel
    /\ scrollTop = event.to

\* a target less than a pixel away, applied in the middle of an animation
ImmediateScrollNearWitness ==
    /\ event.owner = "editor"
    /\ event.type = "immediate"
    /\ event.duration > 0
    /\ Abs(event.to - event.from) = 1
    /\ scrollTop = event.to
    /\ anim = Null

\* C27: in every reachable state this.anim is non-null exactly when a step
\* callback of the instance is pending; there is then one such callback and
\* this.anim.rafId is its handle, so that stopAnimation cancels the step
\* that would run next.
HandleIsPendingStep ==
    /\ anim = Null <=> EditorStepsPending = {}
    /\ anim # Null =>
          /\ Cardinality(EditorStepsPending) = 1
          /\ \A i \in EditorStepsPending : callbacks[i].id = anim[1].rafId

\* the instance's step still to run in a frame in which a plugin step is
\* pending too
HandleIsPendingStepWitness ==
    /\ anim # Null
    /\ \E i \in EditorStepsPending : callbacks[i].id \in {frame[j] : j \in 1..Len(frame)}
    /\ \E i \in 1..Len(callbacks) : callbacks[i].kind = "pluginStep"
    /\ pendingScrollUpdate

--------------------------------------------------------------------------
\* When the decorations are recomputed (Spec, SpecDim)

DecorationsCurrent ==
    decorations = buildDecorations(doc, selection)

\* the cursor moved into the middle line of three: a range before it and a
\* range after it
DecorationsCurrentWitness ==
    /\ settings.focusMode = "line"
    /\ docLines(doc) = 3
    /\ docLineAt(doc, selection.head).number = 2
    /\ selection.anchor = selection.head
    /\ Len(decorations) = 2

(***************************************************************************)
(* SpecDestroy: the scroll machinery of Spec with destroy().  Once the     *)
(* instance is destroyed no transaction and no command reaches it; the     *)
(* frame callbacks it has handed to the browser stay where they are.       *)
(***************************************************************************)
InitDestroy ==
    /\ settings \in ScrollSettings
    /\ isDailyNote = FALSE
    /\ Is(Constructed(<<>>, Cursor(0)))
    /\ owed = 0
    /\ command = "none"
    /\ wheelAccumulator = 0
    /\ wheel = NoWheel
    /\ destroyed = FALSE

\* destroy(): the wheel listener is removed
Destroy ==
    /\ frame = <<>>
    /\ ~destroyed
    /\ destroyed' = TRUE
    /\ event' = NoEvent
    /\ UNCHANGED <<settings, isDailyNote, doc, selection, decorations,
                   pendingScrollUpdate, anim, scrollTop, callbacks, frame,
                   notified, recomputes, owed, command, wheelAccumulator, wheel>>

UpdateLive == ~destroyed /\ Update

CommandLive == ~destroyed /\ Command

NextDestroy == UpdateLive \/ CommandLive \/ BeginFrame \/ RunCallback \/ Destroy

SpecDestroy == InitDestroy /\ [][NextDestroy]_vars

\* C29 as stated: after destroy() none of the instance's frame callbacks
\* still pending, the scheduled scroll update or an animation step, writes
\* scrollTop, starts an animation or dispatches to the view; in particular
\* the scroll position stays where it is and this.anim takes no new handle.
DestroyedIsSilent ==
    [][destroyed =>
         /\ scrollTop' = scrollTop
         /\ anim' = anim \/ anim' = Null]_vars

--------------------------------------------------------------------------
\* The cursor and the dimmed ranges (SpecDim, SpecSeg)

\* the modes and cursor lines C30 speaks of
FocusUnitAroundCursor ==
    /\ DimmingOn
    /\ decorations # <<>>
    /\ \/ settings.focusMode \in {"section", "line"}
       \/ /\ settings.focusMode \in {"sentence", "paragraph"}
          /\ ~IsBlank(docLine(doc, CursorLineNumber).text)

\* C30: whenever dim ranges are produced in section or line mode, or in
\* sentence or paragraph mode with the cursor on a non-blank line, the
\* cursor's offset lies inside the focus unit, focusStart <= cursor <=
\* focusEnd, and so strictly inside no dimmed range.
CursorInFocus ==
    FocusUnitAroundCursor =>
        /\ \E focusStart \in 0..selection.head :
             \E focusEnd \in selection.head..Len(doc) :
                decorations = DimRanges(focusStart, focusEnd)
        /\ \A i \in 1..Len(decorations) :
              ~(decorations[i].from < selection.head /\ selection.head < decorations[i].to)

\* the cursor at the very start of its sentence, where the dimmed prefix ends
CursorInFocusWitness ==
    /\ FocusUnitAroundCursor
    /\ settings.focusMode = "sentence"
    /\ Len(decorations) = 1
    /\ decorations[1].from = 0
    /\ decorations[1].to = selection.head
    /\ selection.head > docLine(doc, CursorLineNumber).from

====
